---------------------------- MODULE Spec2Model ----------------------------
(***************************************************************************)
(* A model of scripts/llm.py: process_text (one request/retry/parse call   *)
(* to the classification service) and process_csv (the batch loop and the  *)
(* final write), together with the __main__ block that starts the batch.   *)
(*                                                                         *)
(* Text is modelled as a sequence of tokens.  The token "<fence>" stands   *)
(* for the three backticks of a fence, "json" for the letters of the       *)
(* language tag, " " for a run of whitespace, and every other token is an  *)
(* indivisible piece of text that holds no backtick.                       *)
(***************************************************************************)
EXTENDS Integers, Sequences, FiniteSets, TLC

(* ------------------------------ bounds -------------------------------- *)

\* The longest input table.
MaxRows == 2

\* The longest content handed to reply extraction, in tokens.
MaxLen == 5

\* retry_count is an unbounded Python int; the model counts up to MaxRetry
\* and keeps the value there ("MaxRetry or more"), so that the retry loop
\* itself stays unbounded.
MaxRetry == 2

(* --------------------------- input tables ----------------------------- *)

\* csv.DictReader yields one dict per data row.
InputRows == {[id |-> "1", text |-> "a"], [id |-> "2", text |-> "b"]}

RECURSIVE SeqsUpTo(_, _)
SeqsUpTo(S, n) ==
    IF n = 0 THEN {<<>>}
    ELSE LET shorter == SeqsUpTo(S, n - 1)
         IN  shorter \cup {Append(s, x) : s \in {t \in shorter : Len(t) = n - 1}, x \in S}

Tables == SeqsUpTo(InputRows, MaxRows)

\* The header of the input file: the columns DictReader exposes.
Headers == {{"id", "text"}, {"id"}, {"text"}}

\* API_KEY of the __main__ block, when it is configured.
API_KEY == "sk-ant"

(* --------------------------- JSON payloads ---------------------------- *)

\* The three backticks that open or close a fenced block.
Fence == "<fence>"

JsonTag == "json"

Space == " "

Prose == "Here is the analysis:"

ObjFact == "{\"classification\":\"fact\",\"transformed_text\":\"T1\"}"

ObjOpinion == "{\"classification\":\"opinion\",\"transformed_text\":\"T2\"}"

ObjOther == "{\"classification\":\"other\",\"transformed_text\":\"T1\"}"

ObjNoClass == "{\"transformed_text\":\"T1\"}"

ObjNoTrans == "{\"classification\":\"fact\"}"

JsonList == "[]"

\* The character U+D800, a lone surrogate: the JSON escape \ud800 decodes to
\* it, and no str holding it can be encoded as UTF-8.
LoneSurrogate == "\\ud800"

ObjSurrogate == "{\"classification\":\"\\ud800\",\"transformed_text\":\"T1\"}"

\* A JSON object cut around the content of its last string: ObjOpen, the
\* content, ObjClose is one JSON text when the content holds no quote.
ObjOpen == "{\"classification\":\"fact\",\"transformed_text\":\""

ObjClose == "\"}"

\* The tokens that hold no quote: they can be the content of a JSON string.
StringTokens == {Fence, JsonTag, Space, Prose, JsonList}

\* The characters of a sequence of tokens.
RECURSIVE Concat(_)
Concat(s) == IF s = <<>> THEN "" ELSE Head(s) \o Concat(Tail(s))

\* The tokens that are one complete JSON text.
JsonTexts ==
    {ObjFact, ObjOpinion, ObjOther, ObjNoClass, ObjNoTrans, JsonList, ObjSurrogate}

\* Parsed JSON values: type, the keys present (of a dict) and their values.
JDict(keys, c, t) ==
    [type |-> "dict", keys |-> keys, classification |-> c, transformed_text |-> t]

JList == [type |-> "list", keys |-> {}, classification |-> "", transformed_text |-> ""]

NoValue == [type |-> "none", keys |-> {}, classification |-> "", transformed_text |-> ""]

\* What the JSON decoder makes of one complete JSON text.
Decode(tok) ==
    CASE tok = ObjFact    -> JDict({"classification", "transformed_text"}, "fact", "T1")
      [] tok = ObjOpinion -> JDict({"classification", "transformed_text"}, "opinion", "T2")
      [] tok = ObjOther   -> JDict({"classification", "transformed_text"}, "other", "T1")
      [] tok = ObjNoClass -> JDict({"transformed_text"}, "", "T1")
      [] tok = ObjNoTrans -> JDict({"classification"}, "fact", "")
      [] tok = JsonList   -> JList
      [] tok = ObjSurrogate ->
            JDict({"classification", "transformed_text"}, LoneSurrogate, "T1")
      [] OTHER            -> NoValue

(* --------------------------- text operators -------------------------- *)

\* sep in s
Contains(s, sep) ==
    \E i \in 1..(Len(s) - Len(sep) + 1) : SubSeq(s, i, i + Len(sep) - 1) = sep

\* The position of the first occurrence of sep in s (0 when there is none).
Find(s, sep) ==
    IF Contains(s, sep)
    THEN CHOOSE i \in 1..(Len(s) - Len(sep) + 1) :
            /\ SubSeq(s, i, i + Len(sep) - 1) = sep
            /\ \A k \in 1..(i - 1) : SubSeq(s, k, k + Len(sep) - 1) # sep
    ELSE 0

\* s.split(sep): the pieces of s between the occurrences of sep.
RECURSIVE Split(_, _)
Split(s, sep) ==
    LET i == Find(s, sep)
    IN  IF i = 0 THEN <<s>>
        ELSE <<SubSeq(s, 1, i - 1)>> \o Split(SubSeq(s, i + Len(sep), Len(s)), sep)

\* s.strip(): s without its leading and trailing whitespace.
RECURSIVE Strip(_)
Strip(s) ==
    IF s = <<>> THEN s
    ELSE IF Head(s) = Space THEN Strip(Tail(s))
    ELSE IF s[Len(s)] = Space THEN Strip(SubSeq(s, 1, Len(s) - 1))
    ELSE s

FenceJson == <<Fence, JsonTag>>

\* ExtractReply that knows the fence tagged json only.
ExtractReply_JsonOnly(response_text) ==
    IF Contains(response_text, FenceJson)
    THEN Strip(Split(Split(response_text, FenceJson)[2], <<Fence>>)[1])
    ELSE response_text

\* ExtractReply with the test for a bare fence before the test for a fence
\* tagged json.
ExtractReply_BareFirst(response_text) ==
    IF Contains(response_text, <<Fence>>)
    THEN Strip(Split(Split(response_text, <<Fence>>)[2], <<Fence>>)[1])
    ELSE IF Contains(response_text, FenceJson)
    THEN Strip(Split(Split(response_text, FenceJson)[2], <<Fence>>)[1])
    ELSE response_text

\* Lines 59-63: the text handed to the JSON parser.
ExtractReply(response_text) ==
    IF Contains(response_text, FenceJson)
    THEN Strip(Split(Split(response_text, FenceJson)[2], <<Fence>>)[1])
    ELSE IF Contains(response_text, <<Fence>>)
    THEN Strip(Split(Split(response_text, <<Fence>>)[2], <<Fence>>)[1])
    ELSE response_text

(* ------------------- outcomes of a call or a lookup ------------------- *)

Return(v) == [kind |-> "return", value |-> v, exc |-> "", msg |-> ""]

\* An exception of class exc whose str() is msg.
Raise(exc, msg) == [kind |-> "raise", value |-> NoValue, exc |-> exc, msg |-> msg]

\* The "continue" of the retry loop.
Retry == [kind |-> "retry", value |-> NoValue, exc |-> "", msg |-> ""]

NoOutcome == [kind |-> "none", value |-> NoValue, exc |-> "", msg |-> ""]

\* The position of the first token after the first of t that holds a quote
\* (0 when there is none): where a string opened by t[1] ends.
NextQuote(t) ==
    IF \E j \in 2..Len(t) : t[j] \notin StringTokens
    THEN CHOOSE j \in 2..Len(t) :
            /\ t[j] \notin StringTokens
            /\ \A k \in 2..(j - 1) : t[k] \in StringTokens
    ELSE 0

\* json.loads(s): whitespace around one JSON text is skipped; anything else
\* is a JSONDecodeError (its message is kept up to the position).
JsonLoads(s) ==
    LET t == Strip(s)
        q == NextQuote(t)
    IN  IF t = <<>> THEN Raise("JSONDecodeError", "Expecting value")
        ELSE IF t[1] \in JsonTexts
        THEN IF Len(t) = 1 THEN Return(Decode(t[1]))
             ELSE Raise("JSONDecodeError", "Extra data")
        ELSE IF t[1] = ObjOpen
        THEN IF q = 0 THEN Raise("JSONDecodeError", "Unterminated string starting at")
             ELSE IF t[q] # ObjClose
             THEN Raise("JSONDecodeError", "Expecting ',' delimiter")
             ELSE IF q < Len(t) THEN Raise("JSONDecodeError", "Extra data")
             ELSE Return(JDict({"classification", "transformed_text"}, "fact",
                               Concat(SubSeq(t, 2, q - 1))))
        ELSE IF t[1] = ObjClose
        THEN IF q = 0 THEN Raise("JSONDecodeError", "Unterminated string starting at")
             ELSE Raise("JSONDecodeError", "Extra data")
        ELSE Raise("JSONDecodeError", "Expecting value")

\* result[key] on a parsed value: str(KeyError) is the repr of the key.
GetItem(v, key) ==
    IF v.type = "dict"
    THEN IF key \in v.keys
         THEN [ok |-> TRUE, val |-> v[key], exc |-> "", msg |-> ""]
         ELSE [ok |-> FALSE, val |-> "", exc |-> "KeyError", msg |-> "'" \o key \o "'"]
    ELSE [ok |-> FALSE, val |-> "", exc |-> "TypeError",
          msg |-> "list indices must be integers or slices, not str"]

(* ------------------------ service responses --------------------------- *)

\* What requests.post comes back with: no response at all (a connection
\* error), or an HTTP response with a status and a body.  The body of a 200
\* is not JSON, JSON without content[0].text, or JSON whose content[0].text
\* is the payload.
ConnError == [kind |-> "connerr", status |-> 0, body |-> "none", payload |-> <<>>]

Http(status) == [kind |-> "http", status |-> status, body |-> "none", payload |-> <<>>]

Ok(body, payload) == [kind |-> "http", status |-> 200, body |-> body, payload |-> payload]

NoResponse == [kind |-> "none", status |-> 0, body |-> "none", payload |-> <<>>]

TooManyRequests == 429

ErrorStatuses == {400, 500}

\* The reply payloads the service is taken to send.
RawPayloads == {<<t>> : t \in JsonTexts \cup {Prose}}

FencedPayloads ==
    { <<Prose, Space, Fence, JsonTag, Space, ObjFact, Space, Fence, Prose>>,
      <<Fence, Space, ObjFact, Space, Fence>> }

Payloads == RawPayloads \cup FencedPayloads

Responses ==
    {ConnError, Http(TooManyRequests)}
        \cup {Http(s) : s \in ErrorStatuses}
        \cup {Ok("notjson", <<>>), Ok("nocontent", <<>>)}
        \cup {Ok("text", p) : p \in Payloads}

\* response.raise_for_status() raises HTTPError for 4xx and 5xx.
RaisesForStatus(status) == status >= 400 /\ status < 600

HttpErrorMessage(status) ==
    IF status < 500 THEN ToString(status) \o " Client Error"
    ELSE ToString(status) \o " Server Error"

\* ExceptHTTPError with every server error retried like a rate limit.
ExceptHTTPError_RetryServerErrors(status) ==
    IF status = TooManyRequests \/ status >= 500 THEN Retry
    ELSE Raise("HTTPError", HttpErrorMessage(status))

\* Lines 68-75: the handler of requests.exceptions.HTTPError.
ExceptHTTPError(status) ==
    IF status = TooManyRequests THEN Retry
    ELSE Raise("HTTPError", HttpErrorMessage(status))

\* Lines 53-66: what follows the rate-limit check.
ParseResponse(r) ==
    IF RaisesForStatus(r.status) THEN ExceptHTTPError(r.status)
    ELSE IF r.body = "notjson" THEN Raise("JSONDecodeError", "Expecting value")
    ELSE IF r.body = "nocontent" THEN Raise("KeyError", "'content'")
    ELSE JsonLoads(ExtractReply(r.payload))

\* HandleResponse with a connection error retried like a rate limit.
HandleResponse_RetryConnError(r) ==
    IF r.kind = "connerr" THEN Retry
    ELSE IF r.status = TooManyRequests THEN Retry
    ELSE ParseResponse(r)

\* Lines 29-75: one pass of the loop body of process_text on what
\* requests.post gave: retry, return a result or raise.
HandleResponse(r) ==
    IF r.kind = "connerr" THEN Raise("ConnectionError", "Connection aborted")
    ELSE IF r.status = TooManyRequests THEN Retry
    ELSE ParseResponse(r)

(* ------------------------------ state --------------------------------- *)

VARIABLES
    rows,         \* the data rows of the input file, in file order
    fieldnames,   \* the columns of the input file's header
    api_key,      \* the credential handed to process_csv
    pc,           \* where the program is
    idx,          \* how many rows the reader has yielded
    row,          \* process_csv: the row being handled
    text,         \* process_csv: row['text']
    retry_count,  \* process_text: the retry counter of the current call
    inflight,     \* the request sent and not yet answered
    resp,         \* the last answer received in the current call
    outcome,      \* how the current call of process_text ended
    results,      \* process_csv: the list of output records
    owner,        \* history: per record, the number of the row it was made for
    outfile,      \* the lines of the output file (<<>> while not written)
    writes,       \* how many times the output file was written
    abort,        \* the error that ended the run ("" while there is none)
    calls,        \* history: per finished call, wire, its final answer, its outcome
                  \* and whether it was rate-limited before
    sent,         \* history: the requests sent in the current call
    limited,      \* history: the 429 answers received in the current call
    logged,       \* history: the last retry number printed in the current call
    waited,       \* history: the seconds slept in the current call
    outstanding,  \* history: the requests sent and not answered yet
    first_request,\* history: the first request sent in the current call
    inner,        \* reply extraction: the content that gets wrapped
    extracted,    \* reply extraction: per wrapping form, the text extracted
    parsed        \* reply extraction: per wrapping form, what json.loads gave

vars == <<rows, fieldnames, api_key, pc, idx, row, text, retry_count, inflight,
          resp, outcome, results, owner, outfile, writes, abort, calls,
          sent, limited, logged, waited, outstanding, first_request,
          inner, extracted, parsed>>

collection == <<results, owner>>

input == <<rows, fieldnames, api_key>>

output == <<outfile, writes>>

call == <<retry_count, inflight, resp, outcome, calls>>

wire == <<sent, limited, logged, waited, outstanding, first_request>>

extraction == <<inner, extracted, parsed>>

\* The wrapping forms of a reply: the bare content, the content in a fence
\* tagged json, the content in a fence without a tag.
Forms == {"raw", "json", "bare"}

NotExtracted == [f \in Forms |-> [done |-> FALSE, text |-> <<>>]]

\* Line 50: the seconds of one time.sleep.
RetryInterval == 15

NoRow == [id |-> "", text |-> ""]

Model == "claude-sonnet-4-20250514"

MaxTokens == 1000

\* Lines 10-24: the prompt embeds the text between fixed instructions.
Prompt(t) == <<"Analyze the following text", t, "Respond in JSON format">>

\* Lines 30-44: the request of one requests.post.
Request(t, key) ==
    [key |-> key, model |-> Model, max_tokens |-> MaxTokens, prompt |-> Prompt(t)]

NoRequest == [key |-> "", model |-> "", max_tokens |-> 0, prompt |-> <<>>]

\* Line 112: the header of the output file.
Header == <<"id", "original_text", "classification", "transformed_text">>

Terminal == {"exit", "done", "aborted"}

\* The run starts at the __main__ block, with the credential configured
\* there: the literal of line 124, or nothing.
Init ==
    /\ rows \in Tables
    /\ fieldnames \in Headers
    /\ pc = "main"
    /\ api_key \in {API_KEY, ""}
    /\ idx = 0
    /\ row = NoRow
    /\ text = ""
    /\ retry_count = 0
    /\ inflight = NoRequest
    /\ resp = NoResponse
    /\ outcome = NoOutcome
    /\ results = <<>>
    /\ owner = <<>>
    /\ outfile = <<>>
    /\ writes = 0
    /\ abort = ""
    /\ calls = <<>>
    /\ sent = 0
    /\ limited = 0
    /\ logged = 0
    /\ waited = 0
    /\ outstanding = 0
    /\ first_request = NoRequest
    /\ inner = <<>>
    /\ extracted = NotExtracted
    /\ parsed = [f \in Forms |-> NoOutcome]

(* ------------------------------ __main__ ------------------------------- *)

\* Main without the test of line 126.
Main_NoGuard ==
    /\ pc = "main"
    /\ pc' = "open_in"
    /\ UNCHANGED <<input, extraction, idx, row, text, call, wire, collection, output, abort>>

\* Lines 120-130.
Main ==
    /\ pc = "main"
    /\ pc' = IF api_key = "" THEN "exit" ELSE "open_in"
    /\ UNCHANGED <<input, extraction, idx, row, text, call, wire, collection, output, abort>>

(* ----------------------------- process_csv ----------------------------- *)

\* Lines 80-83: open the input file; the open can fail.
OpenInput ==
    /\ pc = "open_in"
    /\ \E ok \in BOOLEAN :
          IF ok THEN pc' = "loop" /\ abort' = abort
          ELSE pc' = "aborted" /\ abort' = "open_input"
    /\ UNCHANGED <<input, extraction, idx, row, text, call, wire, collection, output>>

\* NextRow taken without waiting for the record of the row before: the next
\* row is started as soon as its call has ended.
NextRow_Eager ==
    /\ pc \in {"loop", "after_call"}
    /\ idx < Len(rows)
    /\ idx' = idx + 1
    /\ row' = rows[idx + 1]
    /\ IF "text" \notin fieldnames
       THEN pc' = "aborted" /\ abort' = "KeyError: 'text'" /\ text' = text
       ELSE IF "id" \notin fieldnames
       THEN pc' = "aborted" /\ abort' = "KeyError: 'id'" /\ text' = row'.text
       ELSE pc' = "post" /\ abort' = abort /\ text' = row'.text
    /\ retry_count' = 0
    /\ resp' = NoResponse
    /\ outcome' = NoOutcome
    /\ sent' = 0
    /\ limited' = 0
    /\ logged' = 0
    /\ waited' = 0
    /\ first_request' = NoRequest
    /\ UNCHANGED <<input, extraction, inflight, calls, outstanding, collection,
                   output>>

\* NextRow with a retry counter that is not set to 0 when process_text is
\* entered: a counter of the module.
NextRow_GlobalCounter ==
    /\ pc = "loop"
    /\ idx < Len(rows)
    /\ idx' = idx + 1
    /\ row' = rows[idx + 1]
    /\ IF "text" \notin fieldnames
       THEN pc' = "aborted" /\ abort' = "KeyError: 'text'" /\ text' = text
       ELSE IF "id" \notin fieldnames
       THEN pc' = "aborted" /\ abort' = "KeyError: 'id'" /\ text' = row'.text
       ELSE pc' = "post" /\ abort' = abort /\ text' = row'.text
    /\ retry_count' = retry_count
    /\ resp' = NoResponse
    /\ outcome' = NoOutcome
    /\ sent' = 0
    /\ limited' = 0
    /\ logged' = 0
    /\ waited' = 0
    /\ first_request' = NoRequest
    /\ UNCHANGED <<input, extraction, inflight, calls, outstanding, collection,
                   output>>

\* Lines 85-90 and 26: the reader yields the next row, the row's text and id
\* are looked up (outside the try), and process_text is entered.
NextRow ==
    /\ pc = "loop"
    /\ idx < Len(rows)
    /\ idx' = idx + 1
    /\ row' = rows[idx + 1]
    /\ IF "text" \notin fieldnames
       THEN pc' = "aborted" /\ abort' = "KeyError: 'text'" /\ text' = text
       ELSE IF "id" \notin fieldnames
       THEN pc' = "aborted" /\ abort' = "KeyError: 'id'" /\ text' = row'.text
       ELSE pc' = "post" /\ abort' = abort /\ text' = row'.text
    /\ retry_count' = 0
    /\ resp' = NoResponse
    /\ outcome' = NoOutcome
    /\ sent' = 0
    /\ limited' = 0
    /\ logged' = 0
    /\ waited' = 0
    /\ first_request' = NoRequest
    /\ UNCHANGED <<input, extraction, inflight, calls, outstanding, collection,
                   output>>

\* str.encode('utf-8'), as print does for stdout and the output file does
\* on write: it fails on a lone surrogate.
Encodable(s) == s # LoneSurrogate

\* str(e) of the UnicodeEncodeError of the print of line 99.
PrintErrorMessage ==
    "'utf-8' codec can't encode character '\\ud800' in position 20: surrogates not allowed"

\* ErrorRecord with the message of the error left out.
ErrorRecord_NoMessage(rw, txt, msg) ==
    [id |-> rw.id, original_text |-> txt, classification |-> "ERROR",
     transformed_text |-> ""]

\* Lines 103-108: the record of a failed row.
ErrorRecord(rw, txt, msg) ==
    [id |-> rw.id, original_text |-> txt, classification |-> "ERROR",
     transformed_text |-> msg]

\* Lines 92-97: the record of a row whose result has the fields c and t.
SuccessRecord(rw, txt, c, t) ==
    [id |-> rw.id, original_text |-> txt, classification |-> c,
     transformed_text |-> t]

\* MakeRecords with the fields read by result.get(key, ""): a missing field
\* becomes an empty value instead of an error.
MakeRecords_GetDefault(rw, txt, o) ==
    IF o.kind = "return"
    THEN LET c == GetItem(o.value, "classification")
             t == GetItem(o.value, "transformed_text")
         IN  <<SuccessRecord(rw, txt, c.val, t.val)>>
    ELSE <<ErrorRecord(rw, txt, o.msg)>>

\* MakeRecords with the two fields of the result taken for each other.
MakeRecords_Swapped(rw, txt, o) ==
    IF o.kind = "return"
    THEN LET c == GetItem(o.value, "classification")
             t == GetItem(o.value, "transformed_text")
         IN  IF ~c.ok THEN <<ErrorRecord(rw, txt, c.msg)>>
             ELSE IF ~t.ok THEN <<ErrorRecord(rw, txt, t.msg)>>
             ELSE <<SuccessRecord(rw, txt, t.val, c.val)>>
    ELSE <<ErrorRecord(rw, txt, o.msg)>>

\* Lines 89-108: the records appended for a row whose call ended as o.  A
\* raised error, or a failing result[...] lookup, gives the ERROR record.
\* Otherwise the success record is appended and the classification is
\* printed (line 99, inside the try): when the print raises, the except
\* clause appends an ERROR record after the success record.
MakeRecords(rw, txt, o) ==
    IF o.kind = "return"
    THEN LET c == GetItem(o.value, "classification")
             t == GetItem(o.value, "transformed_text")
         IN  IF ~c.ok THEN <<ErrorRecord(rw, txt, c.msg)>>
             ELSE IF ~t.ok THEN <<ErrorRecord(rw, txt, t.msg)>>
             ELSE IF Encodable(c.val) THEN <<SuccessRecord(rw, txt, c.val, t.val)>>
             ELSE <<SuccessRecord(rw, txt, c.val, t.val),
                    ErrorRecord(rw, txt, PrintErrorMessage)>>
    ELSE <<ErrorRecord(rw, txt, o.msg)>>

\* The row numbers of n records made for row i.
Owners(n, i) == [k \in 1..n |-> i]

\* csv.DictWriter writes the values of a record in the order of the header.
WriteRow(rec) == [k \in 1..Len(Header) |-> rec[Header[k]]]

\* The line of a record can be encoded for the output file.
Writable(rec) == \A k \in 1..Len(Header) : Encodable(rec[Header[k]])

\* Line 116: writerows writes the records in order and stops, with a
\* UnicodeEncodeError, at the first one that cannot be encoded.
RECURSIVE WriteRows(_)
WriteRows(recs) ==
    IF recs = <<>> \/ ~Writable(Head(recs)) THEN <<>>
    ELSE <<WriteRow(Head(recs))>> \o WriteRows(Tail(recs))

\* BuildRecord with the write of lines 111-116 inside the loop.
BuildRecord_WriteInLoop ==
    /\ pc = "after_call"
    /\ LET recs == MakeRecords(row, text, outcome)
       IN  /\ results' = results \o recs
           /\ owner' = owner \o Owners(Len(recs), idx)
    /\ outfile' = <<Header>> \o WriteRows(results')
    /\ writes' = writes + 1
    /\ pc' = "loop"
    /\ UNCHANGED <<input, extraction, idx, row, text, call, wire, abort>>

\* BuildRecord with the exception of process_text left uncaught.
BuildRecord_AbortOnError ==
    /\ pc = "after_call"
    /\ LET recs == IF outcome.kind = "return" THEN MakeRecords(row, text, outcome)
                   ELSE <<>>
       IN  /\ results' = results \o recs
           /\ owner' = owner \o Owners(Len(recs), idx)
    /\ IF outcome.kind = "return"
       THEN pc' = "loop" /\ abort' = abort
       ELSE pc' = "aborted" /\ abort' = outcome.msg
    /\ UNCHANGED <<input, extraction, idx, row, text, call, wire, output>>

\* Lines 90-108: process_text has returned or raised; the row's record is
\* appended.
BuildRecord ==
    /\ pc = "after_call"
    /\ LET recs == MakeRecords(row, text, outcome)
       IN  /\ results' = results \o recs
           /\ owner' = owner \o Owners(Len(recs), idx)
    /\ pc' = "loop"
    /\ UNCHANGED <<input, extraction, idx, row, text, call, wire, output, abort>>

\* Line 85, 109: the reader is exhausted and the input file is closed.
CloseInput ==
    /\ pc = "loop"
    /\ idx = Len(rows)
    /\ pc' = "open_out"
    /\ UNCHANGED <<input, extraction, idx, row, text, call, wire, collection, output, abort>>

\* Lines 111-118: open the output file (the open can fail), write the header
\* and the records; a record that cannot be encoded ends the run there,
\* with the header and the records before it in the file.
WriteOutput ==
    /\ pc = "open_out"
    /\ \E ok \in BOOLEAN :
          IF ok
          THEN /\ outfile' = <<Header>> \o WriteRows(results)
               /\ writes' = writes + 1
               /\ IF \A k \in 1..Len(results) : Writable(results[k])
                  THEN pc' = "done" /\ abort' = abort
                  ELSE pc' = "aborted" /\ abort' = "UnicodeEncodeError"
          ELSE /\ pc' = "aborted"
               /\ abort' = "open_output"
               /\ UNCHANGED output
    /\ UNCHANGED <<input, extraction, idx, row, text, call, wire, collection>>

(* ----------------------------- process_text ---------------------------- *)

\* Lines 30-44: send the request.
Post ==
    /\ pc = "post"
    /\ inflight' = Request(text, api_key)
    /\ sent' = IF sent <= MaxRetry THEN sent + 1 ELSE sent
    /\ outstanding' = outstanding + 1
    /\ first_request' = IF sent = 0 THEN inflight' ELSE first_request
    /\ pc' = "await"
    /\ UNCHANGED <<input, extraction, idx, row, text, retry_count, resp, outcome,
                   calls, limited, logged, waited, collection, output, abort>>

\* Receive with the retries capped: a rate-limit answer to a retried
\* request is raised as an error.
Receive_GiveUp(r) ==
    /\ pc = "await"
    /\ resp' = r
    /\ inflight' = NoRequest
    /\ LET h == HandleResponse(r)
           o == IF h.kind = "retry" /\ retry_count > 0
                THEN Raise("HTTPError", "429 Client Error") ELSE h
       IN  IF o.kind = "retry"
           THEN /\ retry_count' = IF retry_count < MaxRetry THEN retry_count + 1
                                  ELSE MaxRetry
                /\ logged' = retry_count'
                /\ pc' = "sleep"
                /\ UNCHANGED <<outcome, calls>>
           ELSE /\ outcome' = o
                /\ calls' = Append(calls, [resp |-> r, outcome |-> o,
                                           retried |-> retry_count > 0])
                /\ pc' = "after_call"
                /\ UNCHANGED <<retry_count, logged>>
    /\ limited' = IF r.kind = "http" /\ r.status = TooManyRequests /\ limited < MaxRetry
                  THEN limited + 1 ELSE limited
    /\ outstanding' = outstanding - 1
    /\ UNCHANGED <<input, extraction, idx, row, text, sent, waited, first_request,
                   collection, output, abort>>

\* Receive with the retry sent at once, without the sleep of line 50.
Receive_RetryWithoutWait(r) ==
    /\ pc = "await"
    /\ resp' = r
    /\ inflight' = NoRequest
    /\ LET o == HandleResponse(r)
       IN  IF o.kind = "retry"
           THEN /\ retry_count' = IF retry_count < MaxRetry THEN retry_count + 1
                                  ELSE MaxRetry
                /\ logged' = retry_count'
                /\ pc' = "post"
                /\ UNCHANGED <<outcome, calls>>
           ELSE /\ outcome' = o
                /\ calls' = Append(calls, [resp |-> r, outcome |-> o,
                                           retried |-> retry_count > 0])
                /\ pc' = "after_call"
                /\ UNCHANGED <<retry_count, logged>>
    /\ limited' = IF r.kind = "http" /\ r.status = TooManyRequests /\ limited < MaxRetry
                  THEN limited + 1 ELSE limited
    /\ outstanding' = outstanding - 1
    /\ UNCHANGED <<input, extraction, idx, row, text, sent, waited, first_request,
                   collection, output, abort>>

\* Lines 47-75: requests.post comes back with r.
Receive(r) ==
    /\ pc = "await"
    /\ resp' = r
    /\ inflight' = NoRequest
    /\ LET o == HandleResponse(r)
       IN  IF o.kind = "retry"
           THEN /\ retry_count' = IF retry_count < MaxRetry THEN retry_count + 1
                                  ELSE MaxRetry
                /\ logged' = retry_count'
                /\ pc' = "sleep"
                /\ UNCHANGED <<outcome, calls>>
           ELSE /\ outcome' = o
                /\ calls' = Append(calls, [resp |-> r, outcome |-> o,
                                           retried |-> retry_count > 0])
                /\ pc' = "after_call"
                /\ UNCHANGED <<retry_count, logged>>
    /\ limited' = IF r.kind = "http" /\ r.status = TooManyRequests /\ limited < MaxRetry
                  THEN limited + 1 ELSE limited
    /\ outstanding' = outstanding - 1
    /\ UNCHANGED <<input, extraction, idx, row, text, sent, waited, first_request,
                   collection, output, abort>>

\* Lines 50-51, 72-73: time.sleep(15) ends and the loop continues.
Sleep ==
    /\ pc = "sleep"
    /\ waited' = IF waited < MaxRetry * RetryInterval THEN waited + RetryInterval
                 ELSE waited
    /\ pc' = "post"
    /\ UNCHANGED <<input, extraction, idx, row, text, call, sent, limited, logged,
                   outstanding, first_request, collection, output, abort>>

ReceiveRateLimited == Receive(Http(TooManyRequests))

ReceiveFinal == \E r \in Responses \ {Http(TooManyRequests)} : Receive(r)

Next ==
    \/ Main
    \/ OpenInput
    \/ NextRow
    \/ Post
    \/ ReceiveRateLimited
    \/ ReceiveFinal
    \/ Sleep
    \/ BuildRecord
    \/ CloseInput
    \/ WriteOutput

Spec == Init /\ [][Next]_vars

\* The program always takes its next step, and every request is answered.
FairSpec == Spec /\ WF_vars(Next)

\* The run under the assumption that the steps of the program are taken and
\* that the service does not answer 429 for ever: a request that is awaited
\* again and again eventually gets another answer.
LiveSpec == Spec /\ WF_vars(Next) /\ SF_vars(ReceiveFinal)

(* --------------------------- reply extraction -------------------------- *)

\* The tokens of the contents handed to reply extraction.
ContentTokens == {Fence, JsonTag, Space, JsonList, ObjFact, ObjOpen, ObjClose}

Contents == SeqsUpTo(ContentTokens, MaxLen)

\* The payload that carries content c in wrapping form f: c itself, c on
\* its own lines inside a fence tagged json, c inside a fence without tag.
Wrap(f, c) ==
    CASE f = "raw"  -> c
      [] f = "json" -> <<Fence, JsonTag, Space>> \o c \o <<Space, Fence>>
      [] f = "bare" -> <<Fence, Space>> \o c \o <<Space, Fence>>

program == <<input, pc, idx, row, text, call, wire, collection, output, abort>>

\* Lines 57-65 alone, on a payload whose content is chosen freely: nothing
\* of the batch runs.
InitExtract ==
    /\ rows = <<>>
    /\ fieldnames = {"id", "text"}
    /\ pc = "extract"
    /\ api_key = API_KEY
    /\ idx = 0
    /\ row = NoRow
    /\ text = ""
    /\ retry_count = 0
    /\ inflight = NoRequest
    /\ resp = NoResponse
    /\ outcome = NoOutcome
    /\ results = <<>>
    /\ owner = <<>>
    /\ outfile = <<>>
    /\ writes = 0
    /\ abort = ""
    /\ calls = <<>>
    /\ sent = 0
    /\ limited = 0
    /\ logged = 0
    /\ waited = 0
    /\ outstanding = 0
    /\ first_request = NoRequest
    /\ inner \in Contents
    /\ extracted = NotExtracted
    /\ parsed = [f \in Forms |-> NoOutcome]

\* Lines 59-65 on the payload that carries the content in form f.
Extract(f) ==
    /\ pc = "extract"
    /\ ~extracted[f].done
    /\ extracted' = [extracted EXCEPT
                        ![f] = [done |-> TRUE, text |-> ExtractReply(Wrap(f, inner))]]
    /\ parsed' = [parsed EXCEPT ![f] = JsonLoads(ExtractReply(Wrap(f, inner)))]
    /\ UNCHANGED <<program, inner>>

ExtractRaw == Extract("raw")

ExtractJsonFenced == Extract("json")

ExtractBareFenced == Extract("bare")

NextExtract == ExtractRaw \/ ExtractJsonFenced \/ ExtractBareFenced

ExtractSpec == InitExtract /\ [][NextExtract]_vars

(* ------------------------ vocabulary of the claims --------------------- *)

Classifications == {"opinion", "fact", "proposal"}

RequiredFields == {"classification", "transformed_text"}

\* The positions in the collection of the records made for row i.
RecordsOf(i) == {k \in 1..Len(results) : owner[k] = i}

\* The rows that have a record.
Recorded == {owner[k] : k \in 1..Len(results)}

\* The first record made for row i.
FirstRecord(i) ==
    results[CHOOSE k \in RecordsOf(i) : \A m \in RecordsOf(i) : k <= m]

\* classification and transformed_text of the records made for row i, in
\* the order of the collection.
Fields(i) ==
    LET lo == CHOOSE k \in RecordsOf(i) : \A m \in RecordsOf(i) : k <= m
    IN  [n \in 1..Cardinality(RecordsOf(i)) |->
            <<results[lo + n - 1].classification,
              results[lo + n - 1].transformed_text>>]

\* A call result with both fields and a classification of the enumeration.
IsValidResult(v) ==
    /\ v.type = "dict"
    /\ RequiredFields \subseteq v.keys
    /\ v.classification \in Classifications

HasRequiredFields(v) == v.type = "dict" /\ RequiredFields \subseteq v.keys

(* -------------------------------- C1 ---------------------------------- *)

\* C1: once process_csv has reached the write step, the collection holds
\* exactly one record per input row, the k-th record carrying the k-th
\* row's id and text, whether the rows succeeded or failed.
C1_OneRecordPerRow ==
    pc \in {"open_out", "done"} =>
        /\ Len(results) = Len(rows)
        /\ \A k \in 1..Len(rows) :
              /\ results[k].id = rows[k].id
              /\ results[k].original_text = rows[k].text

(* -------------------------------- C2 ---------------------------------- *)

\* C2: when process_text raised for a row (an HTTP failure other than the
\* rate limit, a parse failure, or any other exception), the row's record
\* has classification "ERROR" and the error's message as transformed_text.
C2_RaiseBecomesErrorRecord ==
    \A i \in Recorded :
        calls[i].outcome.kind = "raise" =>
            Fields(i) = << <<"ERROR", calls[i].outcome.msg>> >>

C2_Witness ==
    /\ Len(calls) = 2
    /\ Len(results) = 2
    /\ calls[1].outcome.exc = "HTTPError"
    /\ calls[2].outcome.exc = "JSONDecodeError"
    /\ results[1].transformed_text = "500 Server Error"
    /\ results[2].transformed_text = "Expecting value"

(* -------------------------------- C3 ---------------------------------- *)

C3_Contained ==
    /\ pc # "after_call" => Recorded = 1..Len(calls)
    /\ pc = "after_call" => Recorded = 1..(Len(calls) - 1)
    /\ pc \in {"open_out", "done"} => Len(calls) = Len(rows)
    /\ \A k \in 1..(Len(owner) - 1) : owner[k] <= owner[k + 1]
    /\ \A i, j \in Recorded :
          (calls[i].resp = calls[j].resp /\ calls[i].retried = calls[j].retried)
              => Fields(i) = Fields(j)

C3_RecordsStay ==
    /\ Len(results') >= Len(results)
    /\ \A k \in 1..Len(results) : results'[k] = results[k] /\ owner'[k] = owner[k]

\* C3: a failed row never aborts the batch and never changes another row:
\* every call that ended, failed or not, left its record and the loop went
\* on to the rows after it, so that every row has been sent to the service
\* when the write step is reached; what is recorded for a row is decided by
\* the answers to that row alone (two rows with the same answers have the
\* same classification and transformed_text, whatever happened to the rows
\* before them), and a record once appended is never changed or removed.
C3_FailureIsContained == []C3_Contained /\ [][C3_RecordsStay]_vars

C3_Witness ==
    /\ pc = "done"
    /\ Len(rows) = 2
    /\ calls[1].outcome.kind = "raise"
    /\ results[1].classification = "ERROR"
    /\ calls[2].resp = Ok("text", <<ObjFact>>)
    /\ Fields(2) = << <<"fact", "T1">> >>

(* -------------------------------- C4 ---------------------------------- *)

\* C4: rate-limit answers never surface as row failures: the answer that
\* ends a call is never a 429, what is recorded for a row whose call was
\* rate-limited before its final answer has the same classification and
\* transformed_text as for a row that got the same final answer at once,
\* and a valid reply after rate limiting gives the success record.
C4_RateLimitIsInvisible ==
    /\ \A i \in 1..Len(calls) : calls[i].resp.status # TooManyRequests
    /\ \A i, j \in Recorded :
          (calls[i].resp = calls[j].resp /\ ~calls[i].retried /\ calls[j].retried)
              => Fields(i) = Fields(j)
    /\ \A i \in Recorded :
          (calls[i].retried /\ calls[i].resp = Ok("text", <<ObjOpinion>>))
              => Fields(i) = << <<"opinion", "T2">> >>

C4_Witness ==
    /\ Recorded = {1, 2}
    /\ retry_count >= 2
    /\ ~calls[1].retried
    /\ calls[2].retried
    /\ calls[1].resp = calls[2].resp
    /\ Fields(1) = << <<"fact", "T1">> >>
    /\ Fields(2) = Fields(1)

(* -------------------------------- C5 ---------------------------------- *)

\* C5: when process_text returned a valid result for a row, the row has
\* one record, whose classification is one of opinion, fact, proposal and
\* is the returned one, and whose transformed_text is the returned one.
C5_ValidResultIsCopied ==
    \A i \in Recorded :
        (calls[i].outcome.kind = "return" /\ IsValidResult(calls[i].outcome.value))
            => /\ Cardinality(RecordsOf(i)) = 1
               /\ FirstRecord(i).classification \in Classifications
               /\ FirstRecord(i).classification = calls[i].outcome.value.classification
               /\ FirstRecord(i).transformed_text
                      = calls[i].outcome.value.transformed_text

C5_Witness ==
    /\ Len(calls) = 2
    /\ Len(results) = 2
    /\ calls[1].outcome.kind = "return"
    /\ calls[2].outcome.kind = "return"
    /\ results[1].classification = "fact"
    /\ results[1].transformed_text = "T1"
    /\ results[2].classification = "opinion"
    /\ results[2].transformed_text = "T2"


(* -------------------------------- C6 ---------------------------------- *)

IsJsonReply(r) ==
    LET t == Strip(ExtractReply(r.payload))
    IN  Len(t) = 1 /\ t[1] \in JsonTexts

IsTextReply(r) == r.kind = "http" /\ r.status = 200 /\ r.body = "text"

C7_HttpErrorFailsAtOnce ==
    (resp.kind = "http" /\ resp.status >= 400 /\ resp.status # TooManyRequests) =>
        /\ pc \notin {"post", "await", "sleep"}
        /\ inflight = NoRequest
        /\ outcome.kind = "raise"
        /\ outcome.exc = "HTTPError"
        /\ Len(calls) = idx
        /\ calls[idx].resp = resp
        /\ calls[idx].retried = (retry_count > 0)

C7_Witness ==
    /\ resp = Http(500)
    /\ pc = "after_call"
    /\ retry_count = 1
    /\ idx = 2

(* -------------------------------- C8 ---------------------------------- *)

FileFailures == {"open_input", "open_output"}

\* The call for row i failed, in process_text or at the field access.
RowFailed(i) ==
    \/ calls[i].outcome.kind = "raise"
    \/ ~HasRequiredFields(calls[i].outcome.value)

\* C9: a run of process_csv that ends without completing the output ended
\* on a failure to open the input or the output file, and every failure of
\* a row is turned into that row's ERROR record.
C9_OnlyFileFailuresAbort ==
    /\ pc = "aborted" => abort \in FileFailures
    /\ \A i \in Recorded : RowFailed(i) => FirstRecord(i).classification = "ERROR"

(* -------------------------------- C10 --------------------------------- *)

Terminated == pc \in Terminal

\* The current call's last answer was a rate limit and the call goes on.
RateLimited == resp = Http(TooManyRequests) /\ pc \in {"sleep", "post", "await"}

\* C10 as claimed: every run eventually terminates.
C10_Original == <>Terminated

\* C10 as amended: a run in which every request is answered terminates (by
\* completing, or abnormally) unless the service answers some row with 429
\* for ever: the retry loop of process_text has no bound, and it is the
\* only way for a run to go on for ever.
C10_TerminatesUnlessRateLimitedForEver == <>Terminated \/ <>[]RateLimited

C10_Witness ==
    /\ pc = "done"
    /\ Len(rows) = 2
    /\ calls[1].retried
    /\ calls[2].retried
    /\ retry_count = MaxRetry


(* -------------------------------- C11 --------------------------------- *)

IsJsonContent(c) == JsonLoads(c).kind = "return"

HasMarker(c) == Contains(c, <<Fence>>)

C13_EveryRowRecordedAndWritten ==
    /\ (pc \in {"post", "await", "sleep"}) ~> (pc = "after_call")
    /\ \A i \in 1..MaxRows : (pc = "loop" /\ i <= Len(rows)) ~> (i \in Recorded)
    /\ (pc = "loop") ~> (pc = "done" \/ abort = "open_output")
    /\ [][(pc = "await" /\ resp' = Http(TooManyRequests))
             => (pc' = "sleep" /\ calls' = calls /\ results' = results)]_vars


(* -------------------------------- C14 --------------------------------- *)

\* C14: processing is strictly sequential in input order: at most one
\* request is outstanding at any time, exactly while process_text waits for
\* its answer, and it is the request of the current row; and whenever a
\* request for row i+1 is about to be sent, is outstanding or has been
\* answered, the records of the rows 1..i are in the collection and no
\* record of row i+1 is.
C14_StrictlySequential ==
    /\ outstanding \in {0, 1}
    /\ outstanding = 1 <=> pc = "await"
    /\ outstanding = 1 <=> inflight # NoRequest
    /\ inflight # NoRequest => inflight = Request(rows[idx].text, api_key)
    /\ pc \in {"post", "await", "sleep", "after_call"} =>
          /\ idx \in 1..Len(rows)
          /\ Recorded = 1..(idx - 1)
    /\ Len(calls) <= idx

C14_Witness ==
    /\ idx = 2
    /\ pc = "await"
    /\ sent = 1
    /\ outstanding = 1
    /\ Recorded = {1}
    /\ rows[1].text = "a"
    /\ inflight.prompt = Prompt("b")
    /\ results[1].classification = "ERROR"


(* -------------------------------- C15 --------------------------------- *)

\* The counters of the model stop at their bounds: past MaxRetry answers
\* 429 the counts say "MaxRetry or more".
Saturated == limited = MaxRetry

C15_Counts ==
    /\ pc = "await" => (sent = limited + 1 /\ waited = limited * RetryInterval)
    /\ (idx > 0 /\ Len(calls) = idx /\ abort \notin {"KeyError: 'text'", "KeyError: 'id'"}) =>
          (sent = limited + 1 /\ waited = limited * RetryInterval)
    /\ pc = "sleep" =>
          /\ resp = Http(TooManyRequests)
          /\ limited >= 1
          /\ (sent = limited /\ waited = (limited - 1) * RetryInterval) \/ Saturated
    /\ pc = "post" =>
          /\ (sent = limited \/ Saturated)
          /\ waited = limited * RetryInterval
    /\ inflight # NoRequest =>
          /\ inflight = first_request
          /\ inflight = Request(text, api_key)
    /\ first_request # NoRequest => first_request = Request(text, api_key)

C15_Steps ==
    /\ (pc = "await" /\ pc' # "await") =>
          IF resp' = Http(TooManyRequests)
          THEN pc' = "sleep" /\ sent' = sent /\ waited' = waited
          ELSE pc' = "after_call" /\ sent' = sent /\ waited' = waited
                  /\ limited' = limited
    /\ (pc = "sleep" /\ pc' # "sleep") =>
          /\ pc' = "post"
          /\ waited' = waited + RetryInterval \/ waited = MaxRetry * RetryInterval
          /\ sent' = sent
    /\ (pc = "post" /\ pc' # "post") =>
          /\ pc' = "await"
          /\ inflight' = Request(text, api_key)
          /\ sent > 0 => inflight' = first_request
          /\ sent' = sent + 1 \/ sent = MaxRetry + 1
          /\ waited' = waited
    /\ waited' > waited => (pc = "sleep" /\ resp = Http(TooManyRequests))

\* C15: in each call of process_text the requests sent are one more than
\* the 429 answers received; each 429 answer is followed by one sleep of
\* RetryInterval seconds and then by a re-send of the same request (same
\* prompt, model and credential); and nothing is slept after an answer
\* that is not 429.
C15_OneRequestPerRateLimit == []C15_Counts /\ [][C15_Steps]_vars

C15_Witness ==
    /\ pc = "after_call"
    /\ sent = 3
    /\ limited = 2
    /\ waited = 2 * RetryInterval
    /\ resp = Ok("text", <<ObjFact>>)
    /\ first_request = Request("a", API_KEY)

(* -------------------------------- C17 --------------------------------- *)

\* C17: the retry counter is local to one call of process_text: it is 0
\* when the call starts and goes up by one per 429 answer, so that it
\* always is the number of 429 answers received in the current call, and
\* the number printed with a retry is that number too, whatever the rows
\* before went through.
C17_RetryCounterIsLocal ==
    /\ retry_count = limited
    /\ logged = limited
    /\ (pc = "post" /\ sent = 0) => retry_count = 0

C17_Witness ==
    /\ idx = 2
    /\ calls[1].retried
    /\ pc = "sleep"
    /\ retry_count = 1
    /\ logged = 1
    /\ limited = 1


(* -------------------------------- C16 --------------------------------- *)

\* The position of the first fence marker of p at or after position a
\* (Len(p) + 1 when there is none).
NextFence(p, a) ==
    IF \E q \in a..Len(p) : p[q] = Fence
    THEN CHOOSE q \in a..Len(p) : p[q] = Fence /\ \A k \in a..(q - 1) : p[k] # Fence
    ELSE Len(p) + 1

\* The extraction policy, by positions: after the first marker tagged json
\* when there is one, else after the first marker, up to the next marker
\* (or the end of the payload); the whole payload when it holds no marker.
PolicyText(p) ==
    IF \E a \in 1..(Len(p) - 1) : p[a] = Fence /\ p[a + 1] = JsonTag
    THEN LET a == CHOOSE a \in 1..(Len(p) - 1) :
                     /\ p[a] = Fence /\ p[a + 1] = JsonTag
                     /\ \A k \in 1..(a - 1) : ~(p[k] = Fence /\ p[k + 1] = JsonTag)
         IN  SubSeq(p, a + 2, NextFence(p, a + 2) - 1)
    ELSE IF \E a \in 1..Len(p) : p[a] = Fence
    THEN LET a == NextFence(p, 1)
         IN  SubSeq(p, a + 1, NextFence(p, a + 1) - 1)
    ELSE p

\* C16: reply extraction follows the precedence: when a marker tagged json
\* occurs anywhere in the payload, the text parsed is what lies between the
\* first such marker and the next marker after it, even when a bare fence
\* comes earlier; otherwise, when a marker occurs, what lies between the
\* first two markers; otherwise the payload itself.  A fenced text is
\* stripped of the whitespace around it, the text outside the fence is
\* dropped, and a fence that is not closed runs to the end of the payload.
C16_ExtractionPrecedence ==
    \A f \in Forms :
        extracted[f].done =>
            LET p == Wrap(f, inner)
            IN  /\ HasMarker(p) => extracted[f].text = Strip(PolicyText(p))
                /\ ~HasMarker(p) => extracted[f].text = p
                /\ parsed[f] = JsonLoads(extracted[f].text)

C16_Witness ==
    /\ inner = <<Fence, Fence, JsonTag, ObjFact, Fence>>
    /\ extracted["raw"].done
    /\ extracted["raw"].text = <<ObjFact>>
    /\ parsed["raw"] = Return(Decode(ObjFact))
    /\ extracted["bare"].done
    /\ extracted["bare"].text = <<ObjFact>>

=============================================================================
